---- MODULE Spec2Model ----
(***************************************************************************)
(* A model of the financial-advisor agent bundle:                          *)
(*   - save_advice_report (financial_advisor/agent.py), the report         *)
(*     assembly and artifact persistence tool, with its single suspend     *)
(*     point at the awaited save_artifact call;                            *)
(*   - the three specialist agents and their output bindings;             *)
(*   - the tool registries and the names the instruction texts mention;    *)
(*   - the yfinance data-fetch helpers.                                    *)
(*                                                                         *)
(* A Python str is a sequence of Unicode code points; bytes are a sequence *)
(* of 0..255.  A Python value held in the session state is a tagged record *)
(* so that None and a str can be compared.                                 *)
(***************************************************************************)
EXTENDS Integers, Sequences, FiniteSets, TLC

VARIABLES
    state,        \* tool_context.state: the session's key-value store
    calls,        \* invocations of save_advice_report, in the order they started
    artifacts,    \* the artifact service's log of saved versions, oldest first
    ran,          \* the specialist agents that have run in the session
    lookup,       \* the tool-name resolutions asked of the agents' registries
    fetched       \* the mapping the last data-fetch helper returned

vars == <<state, calls, artifacts, ran, lookup, fetched>>

\* How many invocations of save_advice_report one behaviour starts.
MaxCalls == 2

----------------------------------------------------------------------------
(* Python values and strings *)

PyNone == [t |-> "NoneType", s |-> <<>>]

PyStr(s) == [t |-> "str", s |-> s]

\* str(None), the text an f-string renders for None
NoneText == <<78, 111, 110, 101>>

\* format(v) inside an f-string: a str renders as itself, None as "None"
Format(v) == IF v = PyNone THEN NoneText ELSE v.s

IsSurrogate(c) == c >= 55296 /\ c <= 57343

\* The UTF-8 bytes of one code point.
Utf8Char(c) ==
    IF c < 128 THEN <<c>>
    ELSE IF c < 2048 THEN <<192 + (c \div 64), 128 + (c % 64)>>
    ELSE IF c < 65536
         THEN <<224 + (c \div 4096), 128 + ((c \div 64) % 64), 128 + (c % 64)>>
    ELSE <<240 + (c \div 262144), 128 + ((c \div 4096) % 64),
           128 + ((c \div 64) % 64), 128 + (c % 64)>>

\* str.encode("utf-8") raises UnicodeEncodeError on a lone surrogate.
Utf8Encodable(s) == \A i \in 1..Len(s) : ~IsSurrogate(s[i])

\* str.encode("utf-8"): the bytes of each code point, in order (by halves, to
\* keep the evaluation shallow).
RECURSIVE Utf8Encode(_)
Utf8Encode(s) ==
    IF s = <<>> THEN <<>>
    ELSE IF Len(s) = 1 THEN Utf8Char(s[1])
    ELSE LET h == Len(s) \div 2
         IN Utf8Encode(SubSeq(s, 1, h)) \o Utf8Encode(SubSeq(s, h + 1, Len(s)))

\* the code point whose UTF-8 sequence starts at byte i of b
Utf8CodePointAt(b, i) ==
    IF b[i] < 128 THEN b[i]
    ELSE IF b[i] < 224 THEN (b[i] - 192) * 64 + (b[i + 1] - 128)
    ELSE IF b[i] < 240
         THEN (b[i] - 224) * 4096 + (b[i + 1] - 128) * 64 + (b[i + 2] - 128)
    ELSE (b[i] - 240) * 262144 + (b[i + 1] - 128) * 4096
         + (b[i + 2] - 128) * 64 + (b[i + 3] - 128)

\* a byte that starts a code point: not a continuation byte 0x80..0xBF
IsLeadByte(x) == x < 128 \/ x >= 192

\* bytes.decode("utf-8") of well-formed input: one code point per lead byte,
\* in the order of the lead bytes.
Utf8Decode(b) ==
    LET leads == SelectSeq([i \in 1..Len(b) |-> i], LAMBDA i : IsLeadByte(b[i]))
    IN [k \in 1..Len(leads) |-> Utf8CodePointAt(b, leads[k])]

----------------------------------------------------------------------------
(* The session state *)

DataKey == "data_analyst_result"
FinancialKey == "financial_analyst_result"
NewsKey == "news_analyst_result"
ReportKey == "report"
\* a key of the session that save_advice_report has no business with
OtherKey == "user_goal"

ReadKeys == {DataKey, FinancialKey, NewsKey}
StateKeys == ReadKeys \cup {ReportKey, OtherKey}

\* state.get(key, ""): an empty text for an absent key
StateGetEmptyDefault(st, key) ==
    IF key \in DOMAIN st THEN st[key] ELSE PyStr(<<>>)

\* state.get(key): None when the key is absent
StateGet(st, key) == IF key \in DOMAIN st THEN st[key] ELSE PyNone

\* state[key] = value
StateSet(st, key, value) ==
    [k \in DOMAIN st \cup {key} |-> IF k = key THEN value ELSE st[k]]

----------------------------------------------------------------------------
(* save_advice_report: the report template *)

\* "\n    # Excetutive Summary and Advice:\n    "
TemplateSummary ==
    <<10, 32, 32, 32, 32, 35, 32, 69, 120, 99, 101, 116, 117, 116, 105, 118,
      101, 32, 83, 117, 109, 109, 97, 114, 121, 32, 97, 110, 100, 32, 65, 100,
      118, 105, 99, 101, 58, 10, 32, 32, 32, 32>>

\* "\n\n    ## Data Analyst Report:\n    "
TemplateData ==
    <<10, 10, 32, 32, 32, 32, 35, 35, 32, 68, 97, 116, 97, 32, 65, 110, 97,
      108, 121, 115, 116, 32, 82, 101, 112, 111, 114, 116, 58, 10, 32, 32, 32,
      32>>

\* "\n\n    ## Financial Analyst Report:\n    "
TemplateFinancial ==
    <<10, 10, 32, 32, 32, 32, 35, 35, 32, 70, 105, 110, 97, 110, 99, 105, 97,
      108, 32, 65, 110, 97, 108, 121, 115, 116, 32, 82, 101, 112, 111, 114,
      116, 58, 10, 32, 32, 32, 32>>

\* "\n\n    ## News Analyst Report:\n    "
TemplateNews ==
    <<10, 10, 32, 32, 32, 32, 35, 35, 32, 78, 101, 119, 115, 32, 65, 110, 97,
      108, 121, 115, 116, 32, 82, 101, 112, 111, 114, 116, 58, 10, 32, 32, 32,
      32>>

\* "\n\n    "
TemplateEnd == <<10, 10, 32, 32, 32, 32>>

\* the template with the financial and the news value swapped
BuildReportSwapped(summary, data, financial, news) ==
    TemplateSummary \o summary
    \o TemplateData \o Format(data)
    \o TemplateFinancial \o Format(news)
    \o TemplateNews \o Format(financial)
    \o TemplateEnd

\* the f-string of lines 18-31
BuildReport(summary, data, financial, news) ==
    TemplateSummary \o summary
    \o TemplateData \o Format(data)
    \o TemplateFinancial \o Format(financial)
    \o TemplateNews \o Format(news)
    \o TemplateEnd

\* "_investment_advice.md"
FilenameSuffix ==
    <<95, 105, 110, 118, 101, 115, 116, 109, 101, 110, 116, 95, 97, 100, 118,
      105, 99, 101, 46, 109, 100>>

\* a filename that ignores the ticker
ArtifactFilenameFixed(ticker) == Tail(FilenameSuffix)

\* f"{ticker}_investment_advice.md"
ArtifactFilename(ticker) == ticker \o FilenameSuffix

MimeType == "text/markdown"

\* report.encode("ascii", "ignore"): a payload that drops the non-ASCII text
ArtifactPartAsciiOnly(report) ==
    [mime_type |-> MimeType,
     data |-> Utf8Encode(SelectSeq(report, LAMBDA c : c < 128))]

\* types.Part(inline_data=types.Blob(mime_type=..., data=report.encode("utf-8")))
ArtifactPart(report) == [mime_type |-> MimeType, data |-> Utf8Encode(report)]

\* the value of artifact before line 36 has run
NoArtifact == [mime_type |-> "", data |-> <<>>]

\* the report with the previous report fed back into it
AssembleReportFeedback(st, summary) ==
    Format(StateGet(st, ReportKey))
    \o BuildReport(summary, StateGet(st, DataKey), StateGet(st, FinancialKey),
                   StateGet(st, NewsKey))

\* lines 14-31: the three reads and the f-string
AssembleReport(st, summary) ==
    BuildReport(summary, StateGet(st, DataKey), StateGet(st, FinancialKey),
                StateGet(st, NewsKey))

\* the state write left for after the await
WriteReportDeferred(st, report) == st

\* a write that replaces the whole store
WriteReportClobber(st, report) == [k \in {ReportKey} |-> PyStr(report)]

\* line 32: state["report"] = report
WriteReport(st, report) == StateSet(st, ReportKey, PyStr(report))

----------------------------------------------------------------------------
(* Inputs *)

\* "Buy", "Hold " followed by U+00E9 U+20AC U+1F4C8, and a lone surrogate
Summaries ==
    { <<66, 117, 121>>,
      <<72, 111, 108, 100, 32, 233, 8364, 128200>>,
      <<55296>> }

\* "AAPL", "T"
Tickers == { <<65, 65, 80, 76>>, <<84>> }

\* what each specialist agent answers: "X"; "Y"; "Z " and U+00E9 U+20AC U+1F4C8
AnswerOf ==
    [k \in ReadKeys |->
        CASE k = DataKey -> <<88>>
          [] k = FinancialKey -> <<89>>
          [] k = NewsKey -> <<90, 32, 233, 8364, 128200>>]

\* what an earlier turn left in the session: the user's goal "growth" and an
\* old report "old"
EarlierTurn ==
    [k \in {OtherKey, ReportKey} |->
        IF k = OtherKey THEN PyStr(<<103, 114, 111, 119, 116, 104>>)
        ELSE PyStr(<<111, 108, 100>>)]

EmptyStore == [k \in {} |-> PyNone]

\* The stores a session may hold when the tool is first called: a fresh
\* session's empty store, or the store an earlier turn left, with each analyst
\* result absent or present.
InitialStores ==
    {EmptyStore}
    \cup { [k \in S \cup DOMAIN EarlierTurn |->
                IF k \in S THEN PyStr(AnswerOf[k]) ELSE EarlierTurn[k]]
            : S \in SUBSET ReadKeys }

----------------------------------------------------------------------------
(* save_advice_report *)

\* lines 14-43, up to the suspension in save_artifact: the reads, the f-string,
\* the state write, the filename, the encoding and the call of save_artifact.
\* A summary or result that cannot be encoded raises at line 39, after the
\* state write.
Start(summary, ticker) ==
    /\ Len(calls) < MaxCalls
    /\ LET report == AssembleReport(state, summary)
           after == WriteReport(state, report)
           ok == Utf8Encodable(report)
       IN /\ state' = after
          /\ calls' = Append(calls,
                [summary |-> summary,
                 ticker |-> ticker,
                 data_analyst_result |-> StateGet(state, DataKey),
                 financial_analyst_result |-> StateGet(state, FinancialKey),
                 news_analyst_result |-> StateGet(state, NewsKey),
                 report |-> report,
                 filename |-> ArtifactFilename(ticker),
                 artifact |-> IF ok THEN ArtifactPart(report) ELSE NoArtifact,
                 saves |-> IF ok THEN 1 ELSE 0,
                 pc |-> IF ok THEN "awaiting" ELSE "raised",
                 error |-> IF ok THEN "none" ELSE "UnicodeEncodeError",
                 result |-> "none",
                 state_before |-> state,
                 state_after |-> after])
    /\ UNCHANGED <<artifacts, ran, lookup, fetched>>

\* line 43 resumes: the artifact service has stored the version; lines 45-47
\* return the success mapping.
PersistOk(i) ==
    /\ i \in 1..Len(calls)
    /\ calls[i].pc = "awaiting"
    /\ artifacts' = Append(artifacts,
            [filename |-> calls[i].filename,
             mime_type |-> calls[i].artifact.mime_type,
             data |-> calls[i].artifact.data,
             by |-> i])
    /\ calls' = [calls EXCEPT ![i].pc = "done", ![i].result = "success"]
    /\ UNCHANGED <<state, ran, lookup, fetched>>

\* line 43 resumes with the artifact service's exception, which nothing
\* catches: the coroutine ends without a result.
PersistFail(i) ==
    /\ i \in 1..Len(calls)
    /\ calls[i].pc = "awaiting"
    /\ calls' = [calls EXCEPT ![i].pc = "raised", ![i].error = "PersistenceError"]
    /\ UNCHANGED <<state, artifacts, ran, lookup, fetched>>

----------------------------------------------------------------------------
(* The agents: names, output bindings, tool lists, and the tools their
   instruction texts name *)

\* A tool as the function it is (its Python identifier)
FunctionTool(f) == [ident |-> f, name |-> f]

\* AgentTool(agent=<ident>): the tool is exposed under the agent's name
AgentTool(ident, agent) == [ident |-> ident, name |-> agent.name]

\* output_key is <<key>>, or <<>> when the agent declares none
data_analyst ==
    [name |-> "DataAnalyst",
     output_key |-> <<"data_analyst_result">>,
     tools |-> {FunctionTool("get_company_info"), FunctionTool("get_stock_price"),
                FunctionTool("get_financial_metrics")},
     instruction_tools |-> {"get_company_info", "get_stock_price",
                            "get_financial_metrics"}]

financial_analyst ==
    [name |-> "FinancialAnalyst",
     output_key |-> <<"financial_analyst_result">>,
     tools |-> {FunctionTool("get_income_statement"),
                FunctionTool("get_balance_sheet"), FunctionTool("get_cash_flow")},
     instruction_tools |-> {"get_income_statement", "get_balance_sheet",
                            "get_cash_flow"}]

news_analyst ==
    [name |-> "NewsAnalyst",
     output_key |-> <<>>,
     tools |-> {FunctionTool("get_company_news")},
     instruction_tools |-> {"get_company_news"}]

\* the tools PROMPT lists under "Available Specialized Tools" and "Direct Tools"
PROMPT_tools ==
    {"data_analyst", "news_analyst", "financial_analyst", "save_company_report"}

financial_advisor ==
    [name |-> "FinancialAdvisor",
     output_key |-> <<>>,
     tools |-> {AgentTool("financial_analyst", financial_analyst),
                AgentTool("news_analyst", news_analyst),
                AgentTool("data_analyst", data_analyst),
                FunctionTool("save_advice_report")},
     instruction_tools |-> PROMPT_tools]

SubAgents == {data_analyst, financial_analyst, news_analyst}
Agents == SubAgents \cup {financial_advisor}

\* A specialist agent runs as a tool of the orchestrator and ends with the
\* answer `answer`; the runtime binds the answer to the agent's output_key,
\* when it declares one.
RunSubAgent(agent, answer) ==
    /\ agent \in SubAgents
    /\ state' = IF agent.output_key = <<>> THEN state
                ELSE StateSet(state, agent.output_key[1], PyStr(answer))
    /\ ran' = ran \cup {agent.name}
    /\ UNCHANGED <<calls, artifacts, lookup, fetched>>

\* How many tool-name resolutions one behaviour records.
MaxLookups == 2

\* The names a model may ask an agent for: those its instruction mentions
\* and those under which its tools are declared.
AskableNames(agent) == agent.instruction_tools \cup {t.name : t \in agent.tools}

\* whether `name` is a tool of the agent: its exposed name, or the identifier
\* it was registered with
Resolves(agent, name) == \E t \in agent.tools : t.name = name \/ t.ident = name

\* The model asks `agent` for the tool `name`.
ResolveTool(agent, name) ==
    /\ Len(lookup) < MaxLookups
    /\ agent \in Agents
    /\ name \in AskableNames(agent)
    /\ lookup' = Append(lookup,
            [agent |-> agent.name, name |-> name, found |-> Resolves(agent, name)])
    /\ UNCHANGED <<state, calls, artifacts, ran, fetched>>

----------------------------------------------------------------------------
(* The data-fetch helpers *)

\* the literal "NA"
NA == PyStr(<<78, 65>>)

PyNumber(n) == [t |-> "number", s |-> <<n>>]

PyList(items) == [t |-> "list", s |-> items]

InfoKeys ==
    {"longName", "industry", "sector", "currentPrice", "marketCap",
     "trailingPE", "dividendYield", "beta"}

\* what the provider reports under a key of Ticker.info, when it reports it:
\* "Acme", "Software", "Technology", and numbers in the provider's units
InfoValue ==
    [k \in InfoKeys |->
        CASE k = "longName" -> PyStr(<<65, 99, 109, 101>>)
          [] k = "industry" -> PyStr(<<83, 111, 102, 116, 119, 97, 114, 101>>)
          [] k = "sector" -> PyStr(<<84, 101, 99, 104, 110, 111, 108, 111, 103, 121>>)
          [] k = "currentPrice" -> PyNumber(245)
          [] k = "marketCap" -> PyNumber(385000)
          [] k = "trailingPE" -> PyNumber(15)
          [] k = "dividendYield" -> PyNumber(3)
          [] k = "beta" -> PyNumber(1)]

\* Ticker.info: a dict holding any subset of the keys
InfoResponses == { [k \in S |-> InfoValue[k]] : S \in SUBSET InfoKeys }

\* DataFrame.to_json() of the provider's table: "{}" for an empty one
JsonTexts == { <<123, 125>> }

\* Ticker.get_news(): None, an empty list, or a list of items
NewsResponses == { PyNone, PyList(<<>>), PyList(<<"item">>) }

\* "1mo", "max"
Periods == { <<49, 109, 111>>, <<109, 97, 120>> }

\* dict.get(key, default)
DictGetDefault(d, key, default) == IF key \in DOMAIN d THEN d[key] ELSE default

\* dict.get(key)
DictGet(d, key) == IF key \in DOMAIN d THEN d[key] ELSE PyNone

\* x or []
OrEmptyList(x) == IF x = PyNone \/ x = PyList(<<>>) THEN PyList(<<>>) ELSE x

get_company_info(ticker, info) ==
    [ticker |-> ticker,
     success |-> TRUE,
     company_name |-> DictGetDefault(info, "longName", NA),
     industry |-> DictGetDefault(info, "industry", NA),
     sector |-> DictGetDefault(info, "sector", NA)]

get_stock_price(ticker, info, history) ==
    [ticker |-> ticker,
     success |-> TRUE,
     history |-> PyStr(history),
     current_price |-> DictGet(info, "currentPrice")]

get_financial_metrics(ticker, info) ==
    [ticker |-> ticker,
     success |-> TRUE,
     market_cap |-> DictGetDefault(info, "marketCap", NA),
     pe_ratio |-> DictGetDefault(info, "trailingPE", NA),
     dividend_yield |-> DictGetDefault(info, "dividendYield", NA),
     beta |-> DictGetDefault(info, "beta", NA)]

get_income_statement(ticker, json) ==
    [ticker |-> ticker, success |-> TRUE, income_statement |-> PyStr(json)]

get_balance_sheet(ticker, json) ==
    [ticker |-> ticker, success |-> TRUE, balance_sheet |-> PyStr(json)]

get_cash_flow(ticker, json) ==
    [ticker |-> ticker, success |-> TRUE, cash_flow |-> PyStr(json)]

get_company_news(ticker, news) ==
    [ticker |-> ticker, success |-> TRUE, news |-> OrEmptyList(news)]

\* A helper is called with `ticker`; the provider answers `info` (and the
\* table or the news); `fetched` keeps the call and what it returned.
FetchCompanyInfo(ticker, info) ==
    /\ fetched' = [helper |-> "get_company_info", ticker |-> ticker,
                   info |-> info, result |-> get_company_info(ticker, info)]
    /\ UNCHANGED <<state, calls, artifacts, ran, lookup>>

FetchStockPrice(ticker, period, info, history) ==
    /\ fetched' = [helper |-> "get_stock_price", ticker |-> ticker,
                   period |-> period, info |-> info,
                   result |-> get_stock_price(ticker, info, history)]
    /\ UNCHANGED <<state, calls, artifacts, ran, lookup>>

FetchFinancialMetrics(ticker, info) ==
    /\ fetched' = [helper |-> "get_financial_metrics", ticker |-> ticker,
                   info |-> info, result |-> get_financial_metrics(ticker, info)]
    /\ UNCHANGED <<state, calls, artifacts, ran, lookup>>

FetchIncomeStatement(ticker, json) ==
    /\ fetched' = [helper |-> "get_income_statement", ticker |-> ticker,
                   info |-> EmptyStore, result |-> get_income_statement(ticker, json)]
    /\ UNCHANGED <<state, calls, artifacts, ran, lookup>>

FetchBalanceSheet(ticker, json) ==
    /\ fetched' = [helper |-> "get_balance_sheet", ticker |-> ticker,
                   info |-> EmptyStore, result |-> get_balance_sheet(ticker, json)]
    /\ UNCHANGED <<state, calls, artifacts, ran, lookup>>

FetchCashFlow(ticker, json) ==
    /\ fetched' = [helper |-> "get_cash_flow", ticker |-> ticker,
                   info |-> EmptyStore, result |-> get_cash_flow(ticker, json)]
    /\ UNCHANGED <<state, calls, artifacts, ran, lookup>>

FetchCompanyNews(ticker, news) ==
    /\ fetched' = [helper |-> "get_company_news", ticker |-> ticker,
                   info |-> EmptyStore, result |-> get_company_news(ticker, news)]
    /\ UNCHANGED <<state, calls, artifacts, ran, lookup>>

NoFetch == [helper |-> ""]

Init ==
    /\ state \in InitialStores
    /\ calls = <<>>
    /\ artifacts = <<>>
    /\ ran = {}
    /\ lookup = <<>>
    /\ fetched = NoFetch

Next ==
    \/ \E summary \in Summaries, ticker \in Tickers : Start(summary, ticker)
    \/ \E i \in 1..MaxCalls : PersistOk(i)
    \/ \E i \in 1..MaxCalls : PersistFail(i)

Spec == Init /\ [][Next]_vars

\* A fresh session: the orchestrator delegates to the specialists and saves
\* reports.
InitSession ==
    /\ state = EmptyStore
    /\ calls = <<>>
    /\ artifacts = <<>>
    /\ ran = {}
    /\ lookup = <<>>
    /\ fetched = NoFetch

Answers == {AnswerOf[k] : k \in {DataKey, FinancialKey}}

NextSession ==
    \/ \E agent \in SubAgents, answer \in Answers : RunSubAgent(agent, answer)
    \/ \E summary \in Summaries, ticker \in Tickers : Start(summary, ticker)
    \/ \E i \in 1..MaxCalls : PersistOk(i)
    \/ \E i \in 1..MaxCalls : PersistFail(i)

SpecSession == InitSession /\ [][NextSession]_vars

\* The tool registries alone.
NextRegistry == \E agent \in Agents : \E name \in AskableNames(agent) : ResolveTool(agent, name)

SpecRegistry == InitSession /\ [][NextRegistry]_vars

\* The data-fetch helpers alone.
NextFetch ==
    \/ \E ticker \in Tickers, info \in InfoResponses : FetchCompanyInfo(ticker, info)
    \/ \E ticker \in Tickers, period \in Periods, info \in InfoResponses,
          history \in JsonTexts : FetchStockPrice(ticker, period, info, history)
    \/ \E ticker \in Tickers, info \in InfoResponses :
          FetchFinancialMetrics(ticker, info)
    \/ \E ticker \in Tickers, json \in JsonTexts : FetchIncomeStatement(ticker, json)
    \/ \E ticker \in Tickers, json \in JsonTexts : FetchBalanceSheet(ticker, json)
    \/ \E ticker \in Tickers, json \in JsonTexts : FetchCashFlow(ticker, json)
    \/ \E ticker \in Tickers, news \in NewsResponses : FetchCompanyNews(ticker, news)

SpecFetch == InitSession /\ [][NextFetch]_vars

----------------------------------------------------------------------------
(* Properties *)

\* whether sub occurs in s at position p
OccursAt(s, sub, p) ==
    /\ p >= 1
    /\ p + Len(sub) - 1 <= Len(s)
    /\ (sub # <<>> => s[p] = sub[1])
    /\ SubSeq(s, p, p + Len(sub) - 1) = sub

\* the first position >= from at which sub occurs in s, or 0
FindFrom(s, sub, from) ==
    LET ps == {p \in from..(Len(s) - Len(sub) + 1) : OccursAt(s, sub, p)}
    IN IF from < 1 \/ ps = {} THEN 0
       ELSE CHOOSE p \in ps : \A q \in ps : p <= q

\* the value a store holds under a key, None when it holds none
ValueAt(st, key) == IF key \in DOMAIN st THEN st[key] ELSE PyNone

\* "# Excetutive Summary and Advice:\n    "
ExecutiveSummaryHeading ==
    <<35, 32, 69, 120, 99, 101, 116, 117, 116, 105, 118, 101, 32, 83, 117,
      109, 109, 97, 114, 121, 32, 97, 110, 100, 32, 65, 100, 118, 105, 99,
      101, 58, 10, 32, 32, 32, 32>>

\* "## Data Analyst Report:\n    ", "## Financial Analyst Report:\n    ",
\* "## News Analyst Report:\n    "
SectionHeading ==
    [k \in ReadKeys |->
        CASE k = DataKey ->
                <<35, 35, 32, 68, 97, 116, 97, 32, 65, 110, 97, 108, 121, 115,
                  116, 32, 82, 101, 112, 111, 114, 116, 58, 10, 32, 32, 32, 32>>
          [] k = FinancialKey ->
                <<35, 35, 32, 70, 105, 110, 97, 110, 99, 105, 97, 108, 32, 65,
                  110, 97, 108, 121, 115, 116, 32, 82, 101, 112, 111, 114, 116,
                  58, 10, 32, 32, 32, 32>>
          [] k = NewsKey ->
                <<35, 35, 32, 78, 101, 119, 115, 32, 65, 110, 97, 108, 121, 115,
                  116, 32, 82, 101, 112, 111, 114, 116, 58, 10, 32, 32, 32, 32>>]

\* the blank line and indentation that end a section: "\n\n    "
SectionEnd == <<10, 10, 32, 32, 32, 32>>

\* the text of a stored analyst result, empty when the key is absent
ResultText(st, key) == IF key \in DOMAIN st THEN st[key].s ELSE <<>>

\* C1: the report an invocation produces (and writes under 'report') contains
\* the summary under the executive-summary heading, then the data result
\* under 'Data Analyst Report', then the financial result under 'Financial
\* Analyst Report', then the news result under 'News Analyst Report', each
\* after the end of the one before.
C1_ReportSectionsInOrder ==
    \A i \in 1..Len(calls) :
        LET c == calls[i]
            r == c.report
            s1 == ExecutiveSummaryHeading \o c.summary
            s2 == SectionHeading[DataKey] \o ResultText(c.state_before, DataKey)
            s3 == SectionHeading[FinancialKey]
                  \o ResultText(c.state_before, FinancialKey)
            s4 == SectionHeading[NewsKey] \o ResultText(c.state_before, NewsKey)
            p1 == FindFrom(r, s1, 1)
            p2 == IF p1 = 0 THEN 0 ELSE FindFrom(r, s2, p1 + Len(s1))
            p3 == IF p2 = 0 THEN 0 ELSE FindFrom(r, s3, p2 + Len(s2))
            p4 == IF p3 = 0 THEN 0 ELSE FindFrom(r, s4, p3 + Len(s3))
        IN /\ ValueAt(c.state_after, ReportKey) = PyStr(r)
           /\ p1 > 0 /\ p2 > 0 /\ p3 > 0 /\ p4 > 0

\* an invocation that found three different analyst results in the store
C1_Witness ==
    \E i \in 1..Len(calls) :
        /\ ReadKeys \subseteq DOMAIN calls[i].state_before
        /\ calls[i].state_before[FinancialKey] # calls[i].state_before[NewsKey]
        /\ calls[i].summary = <<66, 117, 121>>
        /\ calls[i].pc = "done"

\* C3: an invocation with a non-empty ticker that returned success saved
\* exactly one artifact, named '<ticker>_investment_advice.md', of media type
\* 'text/markdown', whose payload is the UTF-8 encoding of the report the
\* invocation wrote under 'report'.
C3_OneArtifactPerSuccess ==
    \A i \in 1..Len(calls) :
        (calls[i].result = "success" /\ calls[i].ticker # <<>>) =>
            LET saved == {j \in 1..Len(artifacts) : artifacts[j].by = i}
                written == ValueAt(calls[i].state_after, ReportKey)
            IN /\ Cardinality(saved) = 1
               /\ \A j \in saved :
                    /\ artifacts[j].filename =
                         calls[i].ticker
                         \o <<95, 105, 110, 118, 101, 115, 116, 109, 101, 110,
                              116, 95, 97, 100, 118, 105, 99, 101, 46, 109, 100>>
                    /\ artifacts[j].mime_type = "text/markdown"
                    /\ written.t = "str"
                    /\ artifacts[j].data = Utf8Encode(written.s)

\* two successful invocations for different tickers, one report with
\* characters of two, three and four bytes
C3_Witness ==
    \E i, j \in 1..Len(calls) :
        /\ calls[i].result = "success" /\ calls[j].result = "success"
        /\ calls[i].ticker # calls[j].ticker
        /\ calls[i].ticker # <<>> /\ calls[j].ticker # <<>>
        /\ \E p \in 1..Len(calls[i].report) : calls[i].report[p] > 65535
        /\ Len(artifacts) = 2

C5_SecondCallIdentical ==
    \A i \in 1..(Len(calls) - 1) :
        LET a == calls[i]
            b == calls[i + 1]
        IN (a.summary = b.summary /\ a.ticker = b.ticker
            /\ b.state_before = a.state_after) =>
              /\ b.report = a.report
              /\ b.artifact = a.artifact
              /\ b.state_after = a.state_after

\* two invocations in sequence, same summary and ticker, both returned, in a
\* session whose store already held a report before the first
C5_Witness ==
    \E i \in 1..(Len(calls) - 1) :
        /\ calls[i].summary = calls[i + 1].summary
        /\ calls[i].ticker = calls[i + 1].ticker
        /\ calls[i].result = "success" /\ calls[i + 1].result = "success"
        /\ artifacts[1].by = i
        /\ ReportKey \in DOMAIN calls[i].state_before
        /\ calls[i + 1].state_before = calls[i].state_after

\* C6: a step of save_advice_report leaves every store key other than
\* 'report' as it was, present with the same value or absent; and the report
\* it writes is the one assembled from the three analyst keys alone.
C6_FrameOfStore ==
    [][ calls' # calls =>
          /\ \A k \in StateKeys \ {ReportKey} :
                /\ (k \in DOMAIN state' <=> k \in DOMAIN state)
                /\ (k \in DOMAIN state /\ k \in DOMAIN state' =>
                        state'[k] = state[k])
          /\ DOMAIN state' \subseteq DOMAIN state \cup {ReportKey}
          /\ (Len(calls') > Len(calls) =>
                ValueAt(state', ReportKey) =
                  PyStr(BuildReport(calls'[Len(calls')].summary,
                                    ValueAt(state, DataKey),
                                    ValueAt(state, FinancialKey),
                                    ValueAt(state, NewsKey)))) ]_vars

\* an invocation has returned in a session that holds an unrelated key and
\* lacks an analyst key
C6_Witness ==
    /\ \E i \in 1..Len(calls) : calls[i].result = "success"
    /\ OtherKey \in DOMAIN state
    /\ NewsKey \notin DOMAIN state
    /\ DataKey \in DOMAIN state

\* C8: the store holds the new report from the moment the persistence call is
\* made; the call is made at most once per invocation and saves at most one
\* artifact; a failed persistence ends the invocation with that failure and
\* without the success indicator, the store still holding the report; the
\* success indicator is returned only once the artifact has been saved.
C8_WriteThenPersistOnce ==
    \A i \in 1..Len(calls) :
        LET c == calls[i]
            saved == {j \in 1..Len(artifacts) : artifacts[j].by = i}
        IN /\ c.saves <= 1
           /\ Cardinality(saved) <= c.saves
           /\ ValueAt(c.state_after, ReportKey) = PyStr(c.report)
           /\ ReportKey \in DOMAIN state
           /\ (i = Len(calls) => ValueAt(state, ReportKey) = PyStr(c.report))
           /\ (c.pc = "awaiting" => c.saves = 1 /\ saved = {} /\ c.result = "none")
           /\ (c.pc = "raised" =>
                 /\ c.result = "none"
                 /\ saved = {}
                 /\ c.error \in {"PersistenceError", "UnicodeEncodeError"}
                 /\ (c.error = "PersistenceError" => c.saves = 1))
           /\ (c.result = "success" <=> c.pc = "done")
           /\ (c.result = "success" => Cardinality(saved) = 1)

\* the last invocation's persistence has failed
C8_Witness ==
    /\ Len(calls) > 0
    /\ calls[Len(calls)].pc = "raised"
    /\ calls[Len(calls)].error = "PersistenceError"
    /\ ValueAt(state, ReportKey) = PyStr(calls[Len(calls)].report)
    /\ ReportKey \in DOMAIN calls[Len(calls)].state_before

\* the version saved last under a filename
LatestArtifact(filename) ==
    LET js == {j \in 1..Len(artifacts) : artifacts[j].filename = filename}
    IN artifacts[CHOOSE j \in js : \A q \in js : q <= j]

\* two invocations, same ticker, different summaries, both returned
TwoCallsCompleted ==
    /\ Len(calls) = 2
    /\ calls[1].ticker = calls[2].ticker
    /\ calls[1].summary # calls[2].summary
    /\ calls[1].result = "success" /\ calls[2].result = "success"

\* C9 as stated: once both invocations have completed, 'report' equals the
\* decoded content of the artifact last saved under the filename.
C9_ReportMatchesLatestArtifact ==
    TwoCallsCompleted =>
        ValueAt(state, ReportKey) =
            PyStr(Utf8Decode(LatestArtifact(calls[1].filename).data))

\* C9 amended: 'report' holds the report of the invocation that started last;
\* the artifact last saved under a filename decodes to the report of the
\* invocation whose persistence completed last; and once two invocations for
\* the same ticker with different summaries have both completed, the two
\* agree exactly when the persistences completed in the order of the starts.
C9_LastStartVersusLastPersist ==
    /\ (Len(calls) > 0 =>
            ValueAt(state, ReportKey) = PyStr(calls[Len(calls)].report))
    /\ \A f \in {artifacts[j].filename : j \in 1..Len(artifacts)} :
            LET latest == LatestArtifact(f)
            IN /\ latest.by \in 1..Len(calls)
               /\ calls[latest.by].filename = f
               /\ Utf8Decode(latest.data) = calls[latest.by].report
    /\ (TwoCallsCompleted =>
            ((ValueAt(state, ReportKey) =
                PyStr(calls[LatestArtifact(calls[1].filename).by].report))
             <=> (LatestArtifact(calls[1].filename).by = 2)))

\* both completed, the first invocation's persistence completing last
C9_Witness ==
    /\ TwoCallsCompleted
    /\ LatestArtifact(calls[1].filename).by = 1
    /\ \E p \in 1..Len(calls[1].report) : calls[1].report[p] > 127

\* C2 as stated: once the data, financial and news agents have all run in a
\* session, the store holds all three keys that save_advice_report reads, and
\* no report assembled from then on renders the placeholder "None" for a
\* missing key.
C2_AllAnalystKeysWritten ==
    ({a.name : a \in SubAgents} \subseteq ran) =>
        /\ ReadKeys \subseteq DOMAIN state
        /\ \A k \in ReadKeys : \E a \in SubAgents : a.output_key = <<k>>

\* the provider key behind each scalar field of a helper's result
ScalarFields ==
    [h \in {"get_company_info", "get_stock_price", "get_financial_metrics"} |->
        CASE h = "get_company_info" ->
                {<<"company_name", "longName">>, <<"industry", "industry">>,
                 <<"sector", "sector">>}
          [] h = "get_stock_price" -> {<<"current_price", "currentPrice">>}
          [] h = "get_financial_metrics" ->
                {<<"market_cap", "marketCap">>, <<"pe_ratio", "trailingPE">>,
                 <<"dividend_yield", "dividendYield">>, <<"beta", "beta">>}]

\* C7 as stated: every helper returns the input ticker and success = true,
\* and every scalar field the provider's response lacks is the literal "NA",
\* current_price of get_stock_price included.
C7_MissingScalarIsNA ==
    fetched.helper # "" =>
        /\ fetched.result.ticker = fetched.ticker
        /\ fetched.result.success = TRUE
        /\ (fetched.helper \in DOMAIN ScalarFields =>
              \A f \in ScalarFields[fetched.helper] :
                  f[2] \notin DOMAIN fetched.info =>
                      fetched.result[f[1]] = PyStr(<<78, 65>>))

AgentNamed(n) == CHOOSE a \in Agents : a.name = n

\* C10 as stated: every tool an agent's instruction names resolves to an
\* entry of that agent's tool list, and every entry of the tool list is named
\* in the instruction.
C10_InstructionMatchesRegistry ==
    \A j \in 1..Len(lookup) :
        LET a == AgentNamed(lookup[j].agent)
        IN /\ (lookup[j].name \in a.instruction_tools => lookup[j].found)
           /\ \A t \in a.tools :
                (t.name = lookup[j].name \/ t.ident = lookup[j].name) =>
                    (t.name \in a.instruction_tools
                     \/ t.ident \in a.instruction_tools)

====
